---------------------------- MODULE Spec2Model ----------------------------
(***************************************************************************)
(* Model of mistralrs-core/src/pipeline/loaders.rs: the architecture tag   *)
(* (NormalLoaderType and its FromStr), the five per-architecture config    *)
(* normalizers (XBasicConfig::deserialize) and the five NormalModelLoader  *)
(* implementations (load, load_xlora, is_gptx).                            *)
(*                                                                         *)
(* Representation.                                                         *)
(*   Option<T>     None is <<>>, Some(v) is <<v>>.                         *)
(*   Result<T, E>  Ok(v) and Err(e) below.                                 *)
(*   JSON text     a record [syntax_ok, members]: members is the sequence  *)
(*                 of <<key, value>> pairs of the top-level object in      *)
(*                 document order; a value is <<"null">>, <<"bool", b>>,   *)
(*                 <<"int", n>>, <<"float", m>> or <<"str", s>>.           *)
(*   f64 / f32     a number counted in thousandths (Milli of them make 1), *)
(*                 so that 10000.0 is 10000 * Milli.  The sample values    *)
(*                 are all exactly representable in both widths.           *)
(***************************************************************************)
EXTENDS Integers, Sequences, FiniteSets, TLC

VARIABLES
    self,       \* the loader instance the callers share: its architecture
    pc,         \* pc[t]: where caller t is in its call
    args,       \* args[t]: the arguments of caller t's current call
    cfg,        \* cfg[t]: Option of the Result of the normalization of the call
    ctor,       \* ctor[t]: the constructor invocations made by the call, in order
    result,     \* result[t]: Option of what the call returned
    selector,   \* the string handed to NormalLoaderType::from_str
    resolved    \* Option of what from_str returned

vars == <<self, pc, args, cfg, ctor, result, selector, resolved>>

\* ------------------------------------------------------------------ bounds

\* The number of required fields a generated document may omit.
MaxOmitted == 1
\* The number of value assignments (variants) of the generated documents.
NumVariants == 2
\* The number of concurrent callers of SpecConc.
NumCallers == 2

\* ------------------------------------------------------- Option and Result

None == <<>>
Some(v) == <<v>>
Ok(v) == [ok |-> TRUE, val |-> v]
Err(e) == [ok |-> FALSE, err |-> e]

\* ------------------------------------------------------------ architecture

\* enum NormalLoaderType
NormalLoaderType == {"Mistral", "Gemma", "Mixtral", "Llama", "Phi2"}

\* The text of the error value of from_str, format!("Unknown architecture `{a}`").
\* The back-quote is written ' here: a TLA+ string cannot hold a back-quote.
UnknownArchitecture(a) == "Unknown architecture '" \o a \o "'"

\* from_str with the capitalised names accepted too (mutant).
from_str_capitalised(s) ==
    CASE s \in {"mistral", "Mistral"} -> Ok("Mistral")
      [] s \in {"gemma", "Gemma"}     -> Ok("Gemma")
      [] s \in {"mixtral", "Mixtral"} -> Ok("Mixtral")
      [] s \in {"llama", "Llama"}     -> Ok("Llama")
      [] s \in {"phi2", "Phi2"}       -> Ok("Phi2")
      [] OTHER                        -> Err(UnknownArchitecture(s))

\* impl FromStr for NormalLoaderType
from_str(s) ==
    CASE s = "mistral" -> Ok("Mistral")
      [] s = "gemma"   -> Ok("Gemma")
      [] s = "mixtral" -> Ok("Mixtral")
      [] s = "llama"   -> Ok("Llama")
      [] s = "phi2"    -> Ok("Phi2")
      [] OTHER         -> Err(UnknownArchitecture(s))

\* -------------------------------------------------------------------- JSON

Milli == 1000

JNull == <<"null">>
JBool(b) == <<"bool", b>>
JInt(n) == <<"int", n>>
JFloat(m) == <<"float", m>>
JStr(s) == <<"str", s>>

\* The variant names candle_nn::Activation accepts (an external type; the
\* three names the sample documents use).
ActivationNames == {"silu", "gelu", "relu"}

ParseError(kind, field) == [kind |-> kind, what |-> field]

\* serde's Deserialize of one JSON value as a field of type ty.
ParseValue(ty, j, field) ==
    CASE ty = "usize" ->
            IF j[1] = "int" /\ j[2] >= 0 THEN Ok(j[2])
            ELSE Err(ParseError("invalid type", field))
      [] ty \in {"f64", "f32"} ->
            IF j[1] = "int" THEN Ok(j[2] * Milli)
            ELSE IF j[1] = "float" THEN Ok(j[2])
            ELSE Err(ParseError("invalid type", field))
      [] ty = "bool" ->
            IF j[1] = "bool" THEN Ok(j[2])
            ELSE Err(ParseError("invalid type", field))
      [] ty = "Activation" ->
            IF j[1] # "str" THEN Err(ParseError("invalid type", field))
            ELSE IF j[2] \in ActivationNames THEN Ok(j[2])
            ELSE Err(ParseError("unknown variant", field))

\* serde's Deserialize of one JSON value as a struct field: an Option<T> field
\* takes null as None and anything else as Some of a T.
SomeOf(r) == IF r.ok THEN Ok(Some(r.val)) ELSE r
ParseField(f, j) ==
    IF f.how = "option"
    THEN IF j = JNull THEN Ok(None) ELSE SomeOf(ParseValue(f.ty, j, f.name))
    ELSE ParseValue(f.ty, j, f.name)

\* Field descriptors of a #[derive(Deserialize)] struct.
Req(name, ty) == [name |-> name, ty |-> ty, how |-> "required", dflt |-> 0]
Opt(name, ty) == [name |-> name, ty |-> ty, how |-> "option", dflt |-> 0]
Dflt(name, ty, d) == [name |-> name, ty |-> ty, how |-> "default", dflt |-> d]

FieldNames(schema) == {schema[i].name : i \in 1..Len(schema)}
FieldOf(schema, name) ==
    schema[CHOOSE i \in 1..Len(schema) : schema[i].name = name]

\* The derived visitor's loop over the members of the object, in document
\* order: a known key is parsed by its field's type (a second occurrence is
\* an error), an unknown key is skipped.  acc maps the keys seen so far.
\* VisitValue is the step for a known key that was not seen before, r being
\* the outcome of parsing its value.
RECURSIVE VisitMap(_, _, _, _)
VisitValue(schema, members, i, acc, key, r) ==
    IF ~r.ok THEN r
    ELSE VisitMap(schema, members, i + 1, (key :> r.val) @@ acc)
VisitMember(schema, members, i, acc, key, j) ==
    IF key \notin FieldNames(schema)
    THEN VisitMap(schema, members, i + 1, acc)
    ELSE IF key \in DOMAIN acc
    THEN Err(ParseError("duplicate field", key))
    ELSE VisitValue(schema, members, i, acc, key,
                    ParseField(FieldOf(schema, key), j))
VisitMap(schema, members, i, acc) ==
    IF i > Len(members) THEN Ok(acc)
    ELSE VisitMember(schema, members, i, acc, members[i][1], members[i][2])

\* The fields the document did not give, in declaration order: an Option is
\* None, a #[serde(default = ...)] field takes its default, any other field
\* is the error "missing field".
\* What a field the document did not give is taken to be.
MissingValue(f) == IF f.how = "option" THEN None ELSE f.dflt
RECURSIVE FillMissing(_, _, _)
FillMissing(schema, i, acc) ==
    IF i > Len(schema) THEN Ok(acc)
    ELSE IF schema[i].name \in DOMAIN acc THEN FillMissing(schema, i + 1, acc)
    ELSE IF schema[i].how = "required"
    THEN Err(ParseError("missing field", schema[i].name))
    ELSE FillMissing(schema, i + 1,
                     (schema[i].name :> MissingValue(schema[i])) @@ acc)

\* The end of the object: seen is the outcome of the loop over its members.
VisitEnd(schema, seen) ==
    IF ~seen.ok THEN seen ELSE FillMissing(schema, 1, seen.val)

\* serde_json::from_str::<Self>(slice)
FromJson(schema, slice) ==
    IF ~slice.syntax_ok THEN Err(ParseError("syntax", ""))
    ELSE VisitEnd(schema, VisitMap(schema, slice.members, 1, <<>>))

\* ----------------------------------------------------------------- Mistral

\* struct MistralBasicConfig
MistralBasicConfig == <<
    Req("vocab_size", "usize"),
    Req("hidden_size", "usize"),
    Req("intermediate_size", "usize"),
    Req("num_hidden_layers", "usize"),
    Req("num_attention_heads", "usize"),
    Req("num_key_value_heads", "usize"),
    Req("hidden_act", "Activation"),
    Req("max_position_embeddings", "usize"),
    Req("rms_norm_eps", "f64"),
    Req("rope_theta", "f64"),
    Opt("sliding_window", "usize") >>

\* The struct literal models::mistral::Config { .. } of MistralBasicConfig::deserialize.
MistralConfig(basic_config, use_flash_attn) ==
    [vocab_size |-> basic_config.vocab_size,
     hidden_size |-> basic_config.hidden_size,
     intermediate_size |-> basic_config.intermediate_size,
     num_hidden_layers |-> basic_config.num_hidden_layers,
     num_attention_heads |-> basic_config.num_attention_heads,
     num_key_value_heads |-> basic_config.num_key_value_heads,
     hidden_act |-> basic_config.hidden_act,
     max_position_embeddings |-> basic_config.max_position_embeddings,
     rms_norm_eps |-> basic_config.rms_norm_eps,
     rope_theta |-> basic_config.rope_theta,
     sliding_window |-> basic_config.sliding_window,
     use_flash_attn |-> use_flash_attn]

\* MistralBasicConfig::deserialize with the flag not stored (mutant).
MistralBasicConfig_deserialize_flag_off(slice, use_flash_attn) ==
    LET parsed == FromJson(MistralBasicConfig, slice)
    IN  IF parsed.ok THEN Ok(MistralConfig(parsed.val, FALSE))
        ELSE Err(parsed.err)

\* MistralBasicConfig::deserialize
MistralBasicConfig_deserialize(slice, use_flash_attn) ==
    LET parsed == FromJson(MistralBasicConfig, slice)
    IN  IF parsed.ok THEN Ok(MistralConfig(parsed.val, use_flash_attn))
        ELSE Err(parsed.err)

\* ------------------------------------------------------------------- Gemma

\* fn default_max_position_embeddings
default_max_position_embeddings == 4096

\* struct GemmaBasicConfig
GemmaBasicConfig == <<
    Req("attention_bias", "bool"),
    Req("head_dim", "usize"),
    Opt("hidden_act", "Activation"),
    Opt("hidden_activation", "Activation"),
    Req("hidden_size", "usize"),
    Req("intermediate_size", "usize"),
    Req("num_attention_heads", "usize"),
    Req("num_hidden_layers", "usize"),
    Req("num_key_value_heads", "usize"),
    Req("rms_norm_eps", "f64"),
    Req("rope_theta", "f64"),
    Req("vocab_size", "usize"),
    Dflt("max_position_embeddings", "usize", default_max_position_embeddings) >>

\* The struct literal models::gemma::Config { .. } of GemmaBasicConfig::deserialize.
GemmaConfig(basic_config, _use_flash_attn) ==
    [vocab_size |-> basic_config.vocab_size,
     hidden_size |-> basic_config.hidden_size,
     intermediate_size |-> basic_config.intermediate_size,
     num_hidden_layers |-> basic_config.num_hidden_layers,
     num_attention_heads |-> basic_config.num_attention_heads,
     num_key_value_heads |-> basic_config.num_key_value_heads,
     hidden_act |-> basic_config.hidden_act,
     hidden_activation |-> basic_config.hidden_activation,
     max_position_embeddings |-> basic_config.max_position_embeddings,
     rms_norm_eps |-> basic_config.rms_norm_eps,
     rope_theta |-> basic_config.rope_theta,
     attention_bias |-> basic_config.attention_bias,
     head_dim |-> basic_config.head_dim]

\* GemmaBasicConfig::deserialize: the flag parameter is _use_flash_attn, unused.
GemmaBasicConfig_deserialize(slice, _use_flash_attn) ==
    LET parsed == FromJson(GemmaBasicConfig, slice)
    IN  IF parsed.ok THEN Ok(GemmaConfig(parsed.val, _use_flash_attn))
        ELSE Err(parsed.err)

\* ------------------------------------------------------------------- Llama

\* default_rope returning 1_000_000.0 (mutant).
default_rope_1e6 == 1000000 * Milli

\* fn default_rope: 10_000.0
default_rope == 10000 * Milli

\* struct LlamaBasicConfig
LlamaBasicConfig == <<
    Req("hidden_size", "usize"),
    Req("intermediate_size", "usize"),
    Req("vocab_size", "usize"),
    Req("num_hidden_layers", "usize"),
    Req("num_attention_heads", "usize"),
    Opt("num_key_value_heads", "usize"),
    Req("rms_norm_eps", "f64"),
    Dflt("rope_theta", "f32", default_rope) >>

\* Option::unwrap_or_default in the place of unwrap_or (mutant).
unwrap_or_default(opt, default) == IF opt = None THEN 0 ELSE opt[1]

\* Option::unwrap_or
unwrap_or(opt, default) == IF opt = None THEN default ELSE opt[1]

\* The struct literal models::llama::Config { .. } of LlamaBasicConfig::deserialize.
LlamaConfig(basic_config, use_flash_attn) ==
    [hidden_size |-> basic_config.hidden_size,
     intermediate_size |-> basic_config.intermediate_size,
     vocab_size |-> basic_config.vocab_size,
     num_hidden_layers |-> basic_config.num_hidden_layers,
     num_attention_heads |-> basic_config.num_attention_heads,
     num_key_value_heads |->
            unwrap_or(basic_config.num_key_value_heads,
                      basic_config.num_attention_heads),
     rms_norm_eps |-> basic_config.rms_norm_eps,
     rope_theta |-> basic_config.rope_theta,
     use_flash_attn |-> use_flash_attn]

\* LlamaBasicConfig::deserialize
LlamaBasicConfig_deserialize(slice, use_flash_attn) ==
    LET parsed == FromJson(LlamaBasicConfig, slice)
    IN  IF parsed.ok THEN Ok(LlamaConfig(parsed.val, use_flash_attn))
        ELSE Err(parsed.err)

\* ----------------------------------------------------------------- Mixtral

\* MixtralBasicConfig with sliding_window an Option, as Mistral's (mutant).
MixtralBasicConfig_optional_window == <<
    Req("vocab_size", "usize"),
    Req("hidden_size", "usize"),
    Req("intermediate_size", "usize"),
    Req("num_hidden_layers", "usize"),
    Req("num_attention_heads", "usize"),
    Req("num_key_value_heads", "usize"),
    Req("hidden_act", "Activation"),
    Req("max_position_embeddings", "usize"),
    Req("rms_norm_eps", "f64"),
    Req("rope_theta", "f64"),
    Opt("sliding_window", "usize"),
    Req("num_experts_per_tok", "usize"),
    Req("num_local_experts", "usize") >>

\* struct MixtralBasicConfig
MixtralBasicConfig == <<
    Req("vocab_size", "usize"),
    Req("hidden_size", "usize"),
    Req("intermediate_size", "usize"),
    Req("num_hidden_layers", "usize"),
    Req("num_attention_heads", "usize"),
    Req("num_key_value_heads", "usize"),
    Req("hidden_act", "Activation"),
    Req("max_position_embeddings", "usize"),
    Req("rms_norm_eps", "f64"),
    Req("rope_theta", "f64"),
    Req("sliding_window", "usize"),
    Req("num_experts_per_tok", "usize"),
    Req("num_local_experts", "usize") >>

\* The struct literal models::mixtral::Config { .. } of MixtralBasicConfig::deserialize.
MixtralConfig(basic_config, use_flash_attn) ==
    [vocab_size |-> basic_config.vocab_size,
     hidden_size |-> basic_config.hidden_size,
     intermediate_size |-> basic_config.intermediate_size,
     num_hidden_layers |-> basic_config.num_hidden_layers,
     num_attention_heads |-> basic_config.num_attention_heads,
     num_key_value_heads |-> basic_config.num_key_value_heads,
     hidden_act |-> basic_config.hidden_act,
     max_position_embeddings |-> basic_config.max_position_embeddings,
     rms_norm_eps |-> basic_config.rms_norm_eps,
     rope_theta |-> basic_config.rope_theta,
     sliding_window |-> basic_config.sliding_window,
     use_flash_attn |-> use_flash_attn,
     num_experts_per_tok |-> basic_config.num_experts_per_tok,
     num_local_experts |-> basic_config.num_local_experts]

\* MixtralBasicConfig::deserialize
MixtralBasicConfig_deserialize(slice, use_flash_attn) ==
    LET parsed == FromJson(MixtralBasicConfig, slice)
    IN  IF parsed.ok THEN Ok(MixtralConfig(parsed.val, use_flash_attn))
        ELSE Err(parsed.err)

\* -------------------------------------------------------------------- Phi2

\* struct Phi2BasicConfig
Phi2BasicConfig == <<
    Req("vocab_size", "usize"),
    Req("hidden_size", "usize"),
    Req("intermediate_size", "usize"),
    Req("num_hidden_layers", "usize"),
    Req("num_attention_heads", "usize"),
    Opt("num_key_value_heads", "usize"),
    Req("hidden_act", "Activation"),
    Req("max_position_embeddings", "usize"),
    Req("layer_norm_eps", "f64"),
    Req("tie_word_embeddings", "bool"),
    Req("rope_theta", "f32"),
    Req("partial_rotary_factor", "f64"),
    Req("qk_layernorm", "bool") >>

\* The struct literal models::phi2::Config { .. } of Phi2BasicConfig::deserialize.
Phi2Config(basic_config, use_flash_attn) ==
    [vocab_size |-> basic_config.vocab_size,
     hidden_size |-> basic_config.hidden_size,
     intermediate_size |-> basic_config.intermediate_size,
     num_hidden_layers |-> basic_config.num_hidden_layers,
     num_attention_heads |-> basic_config.num_attention_heads,
     num_key_value_heads |-> basic_config.num_key_value_heads,
     hidden_act |-> basic_config.hidden_act,
     max_position_embeddings |-> basic_config.max_position_embeddings,
     rope_theta |-> basic_config.rope_theta,
     layer_norm_eps |-> basic_config.layer_norm_eps,
     tie_word_embeddings |-> basic_config.tie_word_embeddings,
     partial_rotary_factor |-> basic_config.partial_rotary_factor,
     qk_layernorm |-> basic_config.qk_layernorm,
     use_flash_attn |-> use_flash_attn]

\* Phi2BasicConfig::deserialize: num_key_value_heads is handed on as the
\* Option the document gave.
Phi2BasicConfig_deserialize(slice, use_flash_attn) ==
    LET parsed == FromJson(Phi2BasicConfig, slice)
    IN  IF parsed.ok THEN Ok(Phi2Config(parsed.val, use_flash_attn))
        ELSE Err(parsed.err)

\* ----------------------------------------------------------------- loaders

\* LlamaLoader::is_gptx returning false (mutant).
LlamaLoader_is_gptx_false == FALSE

\* fn is_gptx of each impl NormalModelLoader
MistralLoader_is_gptx == TRUE
GemmaLoader_is_gptx == TRUE
LlamaLoader_is_gptx == TRUE
MixtralLoader_is_gptx == TRUE
Phi2Loader_is_gptx == TRUE

\* The body of a load or load_xlora is one expression, described here by its
\* parts in evaluation order: the normalization whose `?` may return early,
\* the constructor that is then called, and the arguments that follow the
\* config in that call.
PlainCall(normalized, new, vb, is_gptx) ==
    [normalized |-> normalized, new |-> new,
     rest |-> [vb |-> vb, is_gptx |-> is_gptx]]
XLoraCall(normalized, new, vb, lora_config, xlora_config, xlora_ordering, is_gptx) ==
    [normalized |-> normalized, new |-> new,
     rest |-> [vb |-> vb, lora_config |-> lora_config,
               xlora_config |-> xlora_config,
               xlora_ordering |-> xlora_ordering, is_gptx |-> is_gptx]]

\* MistralLoader
MistralLoader_load(config, use_flash_attn, vb) ==
    PlainCall(MistralBasicConfig_deserialize(config, use_flash_attn),
              "models::mistral::Model::new", vb, MistralLoader_is_gptx)
MistralLoader_load_xlora(config, use_flash_attn, vb, lora_config, xlora_config, xlora_ordering) ==
    XLoraCall(MistralBasicConfig_deserialize(config, use_flash_attn),
              "xlora_models::XLoraMistral::new", vb,
              lora_config, xlora_config, xlora_ordering, MistralLoader_is_gptx)

\* GemmaLoader
GemmaLoader_load(config, use_flash_attn, vb) ==
    PlainCall(GemmaBasicConfig_deserialize(config, use_flash_attn),
              "models::gemma::Model::new", vb, GemmaLoader_is_gptx)
GemmaLoader_load_xlora(config, use_flash_attn, vb, lora_config, xlora_config, xlora_ordering) ==
    XLoraCall(GemmaBasicConfig_deserialize(config, use_flash_attn),
              "xlora_models::XLoraGemma::new", vb,
              lora_config, xlora_config, xlora_ordering, GemmaLoader_is_gptx)

\* LlamaLoader
LlamaLoader_load(config, use_flash_attn, vb) ==
    PlainCall(LlamaBasicConfig_deserialize(config, use_flash_attn),
              "models::llama::Llama::new", vb, LlamaLoader_is_gptx)
LlamaLoader_load_xlora(config, use_flash_attn, vb, lora_config, xlora_config, xlora_ordering) ==
    XLoraCall(LlamaBasicConfig_deserialize(config, use_flash_attn),
              "xlora_models::XLoraLlama::new", vb,
              lora_config, xlora_config, xlora_ordering, LlamaLoader_is_gptx)

\* MixtralLoader
MixtralLoader_load(config, use_flash_attn, vb) ==
    PlainCall(MixtralBasicConfig_deserialize(config, use_flash_attn),
              "models::mixtral::Model::new", vb, MixtralLoader_is_gptx)
\* MixtralLoader::load_xlora normalizing with Mistral's struct (mutant).
MixtralLoader_load_xlora_as_mistral(config, use_flash_attn, vb, lora_config, xlora_config, xlora_ordering) ==
    XLoraCall(MistralBasicConfig_deserialize(config, use_flash_attn),
              "xlora_models::XLoraMixtral::new", vb,
              lora_config, xlora_config, xlora_ordering, MixtralLoader_is_gptx)
MixtralLoader_load_xlora(config, use_flash_attn, vb, lora_config, xlora_config, xlora_ordering) ==
    XLoraCall(MixtralBasicConfig_deserialize(config, use_flash_attn),
              "xlora_models::XLoraMixtral::new", vb,
              lora_config, xlora_config, xlora_ordering, MixtralLoader_is_gptx)

\* Phi2Loader
Phi2Loader_load(config, use_flash_attn, vb) ==
    PlainCall(Phi2BasicConfig_deserialize(config, use_flash_attn),
              "models::phi2::Model::new", vb, Phi2Loader_is_gptx)
\* Phi2Loader::load_xlora putting a default in the place of an absent
\* xlora_config (mutant).
Phi2Loader_load_xlora_default_gating(config, use_flash_attn, vb, lora_config, xlora_config, xlora_ordering) ==
    XLoraCall(Phi2BasicConfig_deserialize(config, use_flash_attn),
              "xlora_models::XLoraPhi2::new", vb, lora_config,
              IF xlora_config = None THEN Some("default") ELSE xlora_config,
              xlora_ordering, Phi2Loader_is_gptx)
Phi2Loader_load_xlora(config, use_flash_attn, vb, lora_config, xlora_config, xlora_ordering) ==
    XLoraCall(Phi2BasicConfig_deserialize(config, use_flash_attn),
              "xlora_models::XLoraPhi2::new", vb,
              lora_config, xlora_config, xlora_ordering, Phi2Loader_is_gptx)

\* Dispatch through dyn NormalModelLoader: the method of the instance's impl.
is_gptx(loader) ==
    CASE loader = "Mistral" -> MistralLoader_is_gptx
      [] loader = "Gemma"   -> GemmaLoader_is_gptx
      [] loader = "Llama"   -> LlamaLoader_is_gptx
      [] loader = "Mixtral" -> MixtralLoader_is_gptx
      [] loader = "Phi2"    -> Phi2Loader_is_gptx

load(loader, a) ==
    CASE loader = "Mistral" -> MistralLoader_load(a.config, a.use_flash_attn, a.vb)
      [] loader = "Gemma"   -> GemmaLoader_load(a.config, a.use_flash_attn, a.vb)
      [] loader = "Llama"   -> LlamaLoader_load(a.config, a.use_flash_attn, a.vb)
      [] loader = "Mixtral" -> MixtralLoader_load(a.config, a.use_flash_attn, a.vb)
      [] loader = "Phi2"    -> Phi2Loader_load(a.config, a.use_flash_attn, a.vb)

load_xlora(loader, a) ==
    CASE loader = "Mistral" ->
            MistralLoader_load_xlora(a.config, a.use_flash_attn, a.vb,
                a.lora_config, a.xlora_config, a.xlora_ordering)
      [] loader = "Gemma" ->
            GemmaLoader_load_xlora(a.config, a.use_flash_attn, a.vb,
                a.lora_config, a.xlora_config, a.xlora_ordering)
      [] loader = "Llama" ->
            LlamaLoader_load_xlora(a.config, a.use_flash_attn, a.vb,
                a.lora_config, a.xlora_config, a.xlora_ordering)
      [] loader = "Mixtral" ->
            MixtralLoader_load_xlora(a.config, a.use_flash_attn, a.vb,
                a.lora_config, a.xlora_config, a.xlora_ordering)
      [] loader = "Phi2" ->
            Phi2Loader_load_xlora(a.config, a.use_flash_attn, a.vb,
                a.lora_config, a.xlora_config, a.xlora_ordering)

\* The call caller t is in.
Call(t) ==
    IF args[t].kind = "load" THEN load(self, args[t]) ELSE load_xlora(self, args[t])

\* The config read from a slot the calls share: that of the first caller who
\* has one (mutant).
ConfigTempShared(t) ==
    cfg[CHOOSE u \in DOMAIN cfg : cfg[u] # None /\ cfg[u][1].ok][1].val

\* The temporary `&XBasicConfig::deserialize(config, use_flash_attn)?` of the
\* call: what the constructor is handed as its config.
ConfigTemp(t) == cfg[t][1].val

\* A constructor error answered with a default model (mutant).
LoadReturnFallback(ret) ==
    IF ret.ok THEN Ok(ret.val) ELSE Ok([model |-> "default"])

\* What the call returns once the constructor has returned ret:
\* Ok(Box::new(X::new(..)?)).
LoadReturn(ret) == IF ret.ok THEN Ok(ret.val) ELSE Err(ret.err)

\* ------------------------------------------------------------------ inputs

\* The strings handed to from_str: the five identifiers, near misses of them
\* and other words, each also with a space or a digit before or after it.
Stems == {"mistral", "gemma", "mixtral", "llama", "phi2", "Mistral", "GEMMA",
          "Llama", "gpt2", "phi", "mistra", "lama", ""}
Affixes == {"", " ", "2"}
Selectors == {p \o n \o q : p \in Affixes, n \in Stems, q \in Affixes}

Schema(loader) ==
    CASE loader = "Mistral" -> MistralBasicConfig
      [] loader = "Gemma"   -> GemmaBasicConfig
      [] loader = "Llama"   -> LlamaBasicConfig
      [] loader = "Mixtral" -> MixtralBasicConfig
      [] loader = "Phi2"    -> Phi2BasicConfig

\* A well-typed JSON value for the i-th field of a struct, of type ty, in
\* variant v: the fields of one document all differ, and so do the variants.
\* A float field is written with a fraction in the odd variants and as an
\* integer literal in the even ones.
SampleValue(ty, i, v) ==
    CASE ty = "usize" -> JInt(10 * i + v)
      [] ty \in {"f64", "f32"} ->
            IF v % 2 = 1 THEN JFloat((10 * i + v) * Milli + 500)
            ELSE JInt(10 * i + v)
      [] ty = "bool" -> JBool(v % 2 = 1)
      [] ty = "Activation" ->
            JStr(CASE v % 3 = 1 -> "silu" [] v % 3 = 2 -> "gelu" [] OTHER -> "relu")

\* The ways a document is edited: one field's value replaced by a value of
\* another JSON type, one key given twice, or a key no struct declares added
\* (before the others, with the value false).
Retypes == {"null", "float", "negative", "string"}
Retyped(kind) ==
    CASE kind = "null"     -> JNull
      [] kind = "float"    -> JFloat(1500)
      [] kind = "negative" -> JInt(-1)
      [] kind = "string"   -> JStr("bogus")
NoEdit == [kind |-> "none", field |-> ""]
ExtraKeys == {"model_type", "use_flash_attn"}

\* The JSON text with the fields of schema, in declaration order, except
\* those in omitted, valued by variant v and then edited.
Document(schema, v, omitted, edit) ==
    LET full == [i \in 1..Len(schema) |->
                    <<schema[i].name,
                      IF edit.kind \in Retypes /\ edit.field = schema[i].name
                      THEN Retyped(edit.kind)
                      ELSE SampleValue(schema[i].ty, i, v)>>]
        kept == SelectSeq(full, LAMBDA m : m[1] \notin omitted)
        twice == SelectSeq(full, LAMBDA m : m[1] = edit.field)
    IN  [syntax_ok |-> TRUE,
         members |->
            CASE edit.kind = "extra" -> <<<<edit.field, JBool(FALSE)>>>> \o kept
              [] edit.kind = "duplicate" -> kept \o twice
              [] OTHER -> kept]

\* A text that is not JSON.
Malformed == [syntax_ok |-> FALSE, members |-> <<>>]

RequiredOf(schema) == {n \in FieldNames(schema) : FieldOf(schema, n).how = "required"}

\* The sets of fields a generated document leaves out: any of the fields that
\* are not required, and at most MaxOmitted of the required ones.
OmitSets(schema) ==
    {r \cup o : r \in {x \in SUBSET RequiredOf(schema) : Cardinality(x) <= MaxOmitted},
                o \in SUBSET (FieldNames(schema) \ RequiredOf(schema))}

\* The edits of a document: each extra key, and every retyping and every
\* doubling of one field.
Edits(schema) ==
    {[kind |-> "extra", field |-> n] : n \in ExtraKeys}
    \cup {[kind |-> k, field |-> n] :
            k \in Retypes \cup {"duplicate"}, n \in FieldNames(schema)}

\* The config texts a caller hands to a loader: a text that is not JSON, the
\* documents of every variant with every set of fields left out, and the
\* complete document of variant 1 with every edit.
Documents(loader) ==
    {Malformed}
    \cup {Document(Schema(loader), v, o, NoEdit) :
            v \in 1..NumVariants, o \in OmitSets(Schema(loader))}
    \cup {Document(Schema(loader), 1, {}, e) : e \in Edits(Schema(loader))}

\* The adapter descriptors: the (name, LoraConfig) list, the optional
\* XLoraConfig and the Ordering, all opaque here.
LoraConfigs == {<<>>, <<"adapter_1", "adapter_2">>}
XLoraConfigs == {None, Some("xlora_config")}
Orderings == {"ordering_1", "ordering_2"}

\* The arguments of a load call by caller t, whose weight handle vb is its own.
LoadArgs(c, f, t) ==
    [kind |-> "load", config |-> c, use_flash_attn |-> f, vb |-> t]
\* The arguments of a load_xlora call by caller t.
LoadXLoraArgs(c, f, t, l, x, o) ==
    [kind |-> "load_xlora", config |-> c, use_flash_attn |-> f, vb |-> t,
     lora_config |-> l, xlora_config |-> x, xlora_ordering |-> o]

\* Three config texts: two well-formed documents that differ in every value,
\* and one that lacks its first field.
Complete1(loader) == Document(Schema(loader), 1, {}, NoEdit)
Complete2(loader) == Document(Schema(loader), 2, {}, NoEdit)
Lacking(loader) == Document(Schema(loader), 1, {Schema(loader)[1].name}, NoEdit)

\* The calls of the single caller: load and load_xlora with every generated
\* document and both flags, and load_xlora with every adapter descriptor.
LoadCalls(loader, t) ==
    {LoadArgs(c, f, t) : c \in Documents(loader), f \in BOOLEAN}
LoadXLoraCalls(loader, t) ==
    {LoadXLoraArgs(c, f, t, <<"adapter_1">>, None, "ordering_1") :
        c \in Documents(loader), f \in BOOLEAN}
    \cup {LoadXLoraArgs(c, TRUE, t, l, x, o) :
            c \in {Complete1(loader), Lacking(loader)},
            l \in LoraConfigs, x \in XLoraConfigs, o \in Orderings}

\* The calls of the concurrent callers: a few, of both kinds, that differ in
\* document, flag and adapter descriptors, two of them failing.
ConcCalls(loader, t) ==
    {LoadArgs(Complete1(loader), TRUE, t),
     LoadArgs(Complete2(loader), FALSE, t),
     LoadArgs(Lacking(loader), TRUE, t),
     LoadXLoraArgs(Complete2(loader), TRUE, t, <<"adapter_1">>, None, "ordering_1"),
     LoadXLoraArgs(Malformed, FALSE, t, <<>>, None, "ordering_2"),
     LoadXLoraArgs(Complete1(loader), FALSE, t,
                   <<"adapter_1", "adapter_2">>, Some("xlora_config"), "ordering_2")}

NoArgs == [kind |-> "none"]

\* What a constructor (an external collaborator) may return.
Constructed(new) ==
    {Ok([model |-> new]), Err([kind |-> "construction", what |-> new])}

\* ----------------------------------------------------------------- actions

\* Caller t calls load or load_xlora on the shared loader, with the arguments
\* of one of calls.
Invoke(t, calls) ==
    /\ pc[t] = "idle"
    /\ \E a \in calls : args' = [args EXCEPT ![t] = a]
    /\ pc' = [pc EXCEPT ![t] = "normalize"]
    /\ UNCHANGED <<self, cfg, ctor, result, selector, resolved>>

\* Caller t calls is_gptx on the shared loader.
CallIsGptx(t) ==
    /\ pc[t] = "idle"
    /\ pc' = [pc EXCEPT ![t] = "done"]
    /\ args' = [args EXCEPT ![t] = [kind |-> "is_gptx"]]
    /\ result' = [result EXCEPT ![t] = Some(Ok(is_gptx(self)))]
    /\ UNCHANGED <<self, cfg, ctor, selector, resolved>>

\* The first argument of the constructor call is evaluated: the config is
\* normalized, and the `?` returns the error of a failed normalization.
Normalize(t) ==
    /\ pc[t] = "normalize"
    /\ \E r \in {Call(t).normalized} :
          /\ cfg' = [cfg EXCEPT ![t] = Some(r)]
          /\ IF r.ok
             THEN /\ pc' = [pc EXCEPT ![t] = "construct"]
                  /\ UNCHANGED result
             ELSE /\ pc' = [pc EXCEPT ![t] = "done"]
                  /\ result' = [result EXCEPT ![t] = Some(Err(r.err))]
    /\ UNCHANGED <<self, args, ctor, selector, resolved>>

\* The constructor is called with the normalized config and the remaining
\* arguments; what it returns decides what the call returns.
Construct(t) ==
    /\ pc[t] = "construct"
    /\ \E call \in {Call(t)} : \E ret \in Constructed(call.new) :
          /\ ctor' = [ctor EXCEPT ![t] =
                        Append(@, [new |-> call.new, config |-> ConfigTemp(t),
                                   rest |-> call.rest, ret |-> ret])]
          /\ result' = [result EXCEPT ![t] = Some(LoadReturn(ret))]
    /\ pc' = [pc EXCEPT ![t] = "done"]
    /\ UNCHANGED <<self, args, cfg, selector, resolved>>

\* The caller has its result and drops it.
Finish(t) ==
    /\ pc[t] = "done"
    /\ pc' = [pc EXCEPT ![t] = "idle"]
    /\ args' = [args EXCEPT ![t] = NoArgs]
    /\ cfg' = [cfg EXCEPT ![t] = None]
    /\ ctor' = [ctor EXCEPT ![t] = <<>>]
    /\ result' = [result EXCEPT ![t] = None]
    /\ UNCHANGED <<self, selector, resolved>>

\* NormalLoaderType::from_str(selector) is called.
Resolve ==
    /\ resolved = None
    /\ resolved' = Some(from_str(selector))
    /\ UNCHANGED <<self, pc, args, cfg, ctor, result, selector>>

\* ---------------------------------------------------------- specifications

Idle(callers) ==
    /\ pc = [t \in callers |-> "idle"]
    /\ args = [t \in callers |-> NoArgs]
    /\ cfg = [t \in callers |-> None]
    /\ ctor = [t \in callers |-> <<>>]
    /\ result = [t \in callers |-> None]

\* One caller, any loader, every generated document and adapter descriptor.
Init ==
    /\ self \in NormalLoaderType
    /\ Idle({1})
    /\ selector = ""
    /\ resolved = None

Next ==
    \/ Invoke(1, LoadCalls(self, 1))
    \/ Invoke(1, LoadXLoraCalls(self, 1))
    \/ CallIsGptx(1)
    \/ Normalize(1)
    \/ Construct(1)
    \/ Finish(1)

Spec == Init /\ [][Next]_vars

\* NumCallers callers of one loader instance, their steps interleaved.
InitConc ==
    /\ self \in NormalLoaderType
    /\ Idle(1..NumCallers)
    /\ selector = ""
    /\ resolved = None

NextConc ==
    \/ \E t \in 1..NumCallers : Invoke(t, ConcCalls(self, t))
    \/ \E t \in 1..NumCallers : Normalize(t)
    \/ \E t \in 1..NumCallers : Construct(t)
    \/ \E t \in 1..NumCallers : Finish(t)

SpecConc == InitConc /\ [][NextConc]_vars

\* The architecture tag is resolved from a selector string.
InitTag ==
    /\ self = "Mistral"
    /\ Idle({1})
    /\ selector \in Selectors
    /\ resolved = None

NextTag == Resolve

SpecTag == InitTag /\ [][NextTag]_vars

\* ------------------------------------------------------------------ claims

Callers == DOMAIN pc
Loading(t) == args[t].kind \in {"load", "load_xlora"}
\* The normalization of caller t's call has returned, successfully.
Normalized(t) == cfg[t] # None /\ cfg[t][1].ok
Canonical(t) == cfg[t][1].val

\* The keys of a document and the value of one of them.
KeysOf(doc) == {doc.members[i][1] : i \in 1..Len(doc.members)}
ValueAt(doc, key) ==
    doc.members[CHOOSE i \in 1..Len(doc.members) : doc.members[i][1] = key][2]
\* The document gives key a value other than null.
Supplies(doc, key) == key \in KeysOf(doc) /\ ValueAt(doc, key) # JNull
\* A JSON number as a count of thousandths.
Thousandths(j) == IF j[1] = "int" THEN j[2] * Milli ELSE j[2]
\* The Option a document's key stands for (of an integer or a string).
OptionAt(doc, key) ==
    IF Supplies(doc, key) THEN Some(ValueAt(doc, key)[2]) ELSE None

\* The required fields of each architecture in the spec's configuration
\* schema table.
SpecRequired(loader) ==
    CASE loader = "Mistral" ->
            {"vocab_size", "hidden_size", "intermediate_size", "num_hidden_layers",
             "num_attention_heads", "num_key_value_heads", "hidden_act",
             "max_position_embeddings", "rms_norm_eps", "rope_theta"}
      [] loader = "Gemma" ->
            {"attention_bias", "head_dim", "hidden_size", "intermediate_size",
             "num_attention_heads", "num_hidden_layers", "num_key_value_heads",
             "rms_norm_eps", "rope_theta", "vocab_size"}
      [] loader = "Llama" ->
            {"hidden_size", "intermediate_size", "vocab_size", "num_hidden_layers",
             "num_attention_heads", "rms_norm_eps"}
      [] loader = "Mixtral" ->
            {"vocab_size", "hidden_size", "intermediate_size", "num_hidden_layers",
             "num_attention_heads", "num_key_value_heads", "hidden_act",
             "max_position_embeddings", "rms_norm_eps", "rope_theta",
             "sliding_window", "num_experts_per_tok", "num_local_experts"}
      [] loader = "Phi2" ->
            {"vocab_size", "hidden_size", "intermediate_size", "num_hidden_layers",
             "num_attention_heads", "hidden_act", "max_position_embeddings",
             "layer_norm_eps", "tie_word_embeddings", "rope_theta",
             "partial_rotary_factor", "qk_layernorm"}

\* C1, as claimed: for every architecture, a successful normalization returns
\* a canonical config that stores the flag the caller passed.
C1_FlagStoredByEveryArchitecture ==
    \A t \in Callers : Normalized(t) =>
        /\ "use_flash_attn" \in DOMAIN Canonical(t)
        /\ Canonical(t).use_flash_attn = args[t].use_flash_attn

\* C1, amended: for Mistral, Mixtral, Llama and Phi2 a successful
\* normalization returns a canonical config that stores the flag the caller
\* passed, whatever the document holds; Gemma's canonical config has no
\* flash-attention field, and is the same for both values of the flag.
C1_FlagStoredExceptByGemma ==
    \A t \in Callers : Normalized(t) =>
        IF self = "Gemma"
        THEN /\ "use_flash_attn" \notin DOMAIN Canonical(t)
             /\ cfg[t][1] = GemmaBasicConfig_deserialize(args[t].config,
                                                         ~args[t].use_flash_attn)
        ELSE Canonical(t).use_flash_attn = args[t].use_flash_attn

\* C1, witness: Gemma has normalized a document for a caller who passed true.
C1_Witness ==
    \E t \in Callers :
        self = "Gemma" /\ Normalized(t) /\ args[t].use_flash_attn = TRUE

\* C1, the case that stands as claimed: a loader other than Gemma has
\* normalized a document that itself holds the key use_flash_attn, false,
\* for a caller who passed true (a second witness).
C1_WitnessDocumentKey ==
    \E t \in Callers :
        /\ self = "Phi2" /\ Normalized(t) /\ args[t].use_flash_attn = TRUE
        /\ "use_flash_attn" \in KeysOf(args[t].config)

\* The key/value head count a canonical config holds, as an Option: Phi2's
\* Config field is an Option<usize>, Llama's a usize.
KvHeads(t) ==
    IF self = "Phi2" THEN Canonical(t).num_key_value_heads
    ELSE Some(Canonical(t).num_key_value_heads)
SuppliedKvHeads(t) == ValueAt(args[t].config, "num_key_value_heads")[2]

\* C2, as claimed: for Llama and Phi2 the canonical key/value head count is
\* the supplied num_key_value_heads, and num_attention_heads when the
\* document omits it.
C2_KvHeadsDerivedByLlamaAndPhi2 ==
    \A t \in Callers : self \in {"Llama", "Phi2"} /\ Normalized(t) =>
        KvHeads(t) =
            IF Supplies(args[t].config, "num_key_value_heads")
            THEN Some(SuppliedKvHeads(t))
            ELSE Some(Canonical(t).num_attention_heads)

\* C2, amended: Llama's normalizer returns num_key_value_heads as supplied,
\* and num_attention_heads when the document omits it; Phi2's normalizer
\* derives nothing: its canonical config holds the supplied value, and holds
\* the head count as absent when the document omits it.
C2_KvHeadsDerivedByLlamaOnly ==
    \A t \in Callers : self \in {"Llama", "Phi2"} /\ Normalized(t) =>
        KvHeads(t) =
            IF Supplies(args[t].config, "num_key_value_heads")
            THEN Some(SuppliedKvHeads(t))
            ELSE IF self = "Llama" THEN Some(Canonical(t).num_attention_heads)
            ELSE None

\* C2, witness: Phi2 has normalized a document without num_key_value_heads.
C2_Witness ==
    \E t \in Callers :
        /\ self = "Phi2" /\ Normalized(t)
        /\ "num_key_value_heads" \notin KeysOf(args[t].config)

\* C2, the case that stands as claimed: Llama has normalized a document
\* without num_key_value_heads (a second witness).
C2_WitnessLlama ==
    \E t \in Callers :
        /\ self = "Llama" /\ Normalized(t)
        /\ "num_key_value_heads" \notin KeysOf(args[t].config)
        /\ Canonical(t).num_key_value_heads = Canonical(t).num_attention_heads

\* The identifiers of the claim and the variant each stands for.
Identifiers == {"mistral", "gemma", "mixtral", "llama", "phi2"}
VariantOf(s) ==
    CASE s = "mistral" -> "Mistral"
      [] s = "gemma"   -> "Gemma"
      [] s = "mixtral" -> "Mixtral"
      [] s = "llama"   -> "Llama"
      [] s = "phi2"    -> "Phi2"
\* The string part occurs in the string whole.
Contains(whole, part) ==
    \E i \in 1..(Len(whole) - Len(part) + 1) :
        SubSeq(whole, i, i + Len(part) - 1) = part

\* C3: from_str returns a tag exactly for the five lowercase identifiers,
\* each its own variant, and for every other string an error whose message
\* contains the string.
C3_FromStrExactMatch ==
    resolved # None =>
        /\ resolved[1].ok <=> selector \in Identifiers
        /\ resolved[1].ok => resolved[1].val = VariantOf(selector)
        /\ ~resolved[1].ok => Contains(resolved[1].err, selector)
        /\ \A a, b \in Identifiers : a # b => VariantOf(a) # VariantOf(b)

\* C3, witness: from_str has rejected " llama".
C3_Witness ==
    resolved # None /\ selector = " llama" /\ ~resolved[1].ok

\* C3, the accepting case: from_str has returned Phi2 for "phi2" (checked to
\* be reachable with the rest).
C3_WitnessAccepted ==
    resolved = Some(Ok("Phi2")) /\ selector = "phi2"

ParseErrorKinds ==
    {"syntax", "invalid type", "unknown variant", "duplicate field", "missing field"}
\* The document of caller t's call is a JSON object without one of the
\* fields the table requires.
LacksRequired(t) ==
    /\ Loading(t)
    /\ args[t].config.syntax_ok
    /\ ~(SpecRequired(self) \subseteq KeysOf(args[t].config))

\* C4: a load or load_xlora call whose document omits a required field
\* returns a configuration-parse error, produces no canonical config, never
\* invokes the constructor and returns no model.
C4_MissingRequiredFieldFails ==
    \A t \in Callers : LacksRequired(t) =>
        /\ pc[t] # "construct"
        /\ ctor[t] = <<>>
        /\ ~Normalized(t)
        /\ pc[t] = "done" =>
              /\ cfg[t] # None
              /\ result[t] # None
              /\ ~result[t][1].ok
              /\ result[t][1].err = cfg[t][1].err
              /\ result[t][1].err.kind \in ParseErrorKinds

\* C4, witness: Mixtral's load_xlora has returned for a document without
\* sliding_window.
C4_Witness ==
    \E t \in Callers :
        /\ self = "Mixtral" /\ pc[t] = "done" /\ args[t].kind = "load_xlora"
        /\ args[t].config.syntax_ok
        /\ KeysOf(args[t].config) = SpecRequired(self) \ {"sliding_window"}
        /\ ~result[t][1].ok

\* The documents with exactly the required fields of the table, well typed.
MinimalDocuments(loader) ==
    {Document(Schema(loader), v, FieldNames(Schema(loader)) \ SpecRequired(loader),
              NoEdit) : v \in 1..NumVariants}

\* C5: a document with exactly the required fields normalizes successfully;
\* and in every canonical config an optional field with a fixed default is
\* that default when the document omits it (Gemma max_position_embeddings
\* 4096, Llama rope_theta 10000.0, Mistral sliding_window and Gemma
\* hidden_act and hidden_activation absent) and the document's value when
\* the document gives one.
C5_DefaultsOfOptionalFields ==
    \A t \in Callers :
        /\ cfg[t] # None /\ args[t].config \in MinimalDocuments(self)
              => /\ cfg[t][1].ok
                 /\ KeysOf(args[t].config) = SpecRequired(self)
        /\ Normalized(t) /\ self = "Gemma" =>
              /\ Canonical(t).max_position_embeddings =
                    IF "max_position_embeddings" \in KeysOf(args[t].config)
                    THEN ValueAt(args[t].config, "max_position_embeddings")[2]
                    ELSE 4096
              /\ Canonical(t).hidden_act =
                    OptionAt(args[t].config, "hidden_act")
              /\ Canonical(t).hidden_activation =
                    OptionAt(args[t].config, "hidden_activation")
        /\ Normalized(t) /\ self = "Llama" =>
              Canonical(t).rope_theta =
                    IF "rope_theta" \in KeysOf(args[t].config)
                    THEN Thousandths(ValueAt(args[t].config, "rope_theta"))
                    ELSE 10000 * Milli
        /\ Normalized(t) /\ self = "Mistral" =>
              Canonical(t).sliding_window =
                    OptionAt(args[t].config, "sliding_window")

\* C5, witness: Gemma has normalized a document with exactly the required
\* fields, and max_position_embeddings is 4096.
C5_Witness ==
    \E t \in Callers :
        /\ self = "Gemma" /\ Normalized(t)
        /\ KeysOf(args[t].config) = SpecRequired("Gemma")
        /\ Canonical(t).max_position_embeddings = 4096
        /\ Canonical(t).hidden_act = None

\* C5, the other case: Llama has normalized a document that gives
\* rope_theta (a second witness).
C5_WitnessGiven ==
    \E t \in Callers :
        /\ self = "Llama" /\ Normalized(t)
        /\ "rope_theta" \in KeysOf(args[t].config)
        /\ Canonical(t).rope_theta # 10000 * Milli

XLoraConstructor(loader) ==
    CASE loader = "Mistral" -> "xlora_models::XLoraMistral::new"
      [] loader = "Gemma"   -> "xlora_models::XLoraGemma::new"
      [] loader = "Llama"   -> "xlora_models::XLoraLlama::new"
      [] loader = "Mixtral" -> "xlora_models::XLoraMixtral::new"
      [] loader = "Phi2"    -> "xlora_models::XLoraPhi2::new"
PlainConstructor(loader) ==
    CASE loader = "Mistral" -> "models::mistral::Model::new"
      [] loader = "Gemma"   -> "models::gemma::Model::new"
      [] loader = "Llama"   -> "models::llama::Llama::new"
      [] loader = "Mixtral" -> "models::mixtral::Model::new"
      [] loader = "Phi2"    -> "models::phi2::Model::new"

\* C6: load_xlora hands the adapter config list, the optional dynamic-gating
\* config (absent when absent) and the adapter ordering to the
\* adapter-augmented constructor as they were passed.
C6_AdapterDescriptorsForwarded ==
    \A t \in Callers : args[t].kind = "load_xlora" =>
        /\ pc[t] = "done" /\ Normalized(t) => Len(ctor[t]) = 1
        /\ \A i \in DOMAIN ctor[t] :
              /\ ctor[t][i].new = XLoraConstructor(self)
              /\ ctor[t][i].rest.lora_config = args[t].lora_config
              /\ ctor[t][i].rest.xlora_config = args[t].xlora_config
              /\ ctor[t][i].rest.xlora_ordering = args[t].xlora_ordering

\* C6, witness: Phi2's load_xlora, called without a dynamic-gating config and
\* with two adapters, has called the constructor without one.
C6_Witness ==
    \E t \in Callers :
        /\ self = "Phi2" /\ args[t].kind = "load_xlora" /\ pc[t] = "done"
        /\ args[t].xlora_config = None
        /\ args[t].lora_config = <<"adapter_1", "adapter_2">>
        /\ Len(ctor[t]) = 1
        /\ ctor[t][1].rest.xlora_config = None

\* C7: is_gptx of every loader is true, also when called after other calls,
\* and the boolean load and load_xlora pass to the constructor is the
\* loader's is_gptx.
C7_IsGptxTrueAndPassed ==
    /\ \A l \in NormalLoaderType : is_gptx(l) = TRUE
    /\ \A t \in Callers :
          /\ args[t].kind = "is_gptx" /\ pc[t] = "done" => result[t] = Some(Ok(TRUE))
          /\ \A i \in DOMAIN ctor[t] :
                /\ ctor[t][i].rest.is_gptx = TRUE
                /\ ctor[t][i].rest.is_gptx = is_gptx(self)

\* C7, witness: Llama's is_gptx has returned true.
C7_Witness ==
    \E t \in Callers :
        /\ self = "Llama" /\ args[t].kind = "is_gptx" /\ pc[t] = "done"
        /\ result[t] = Some(Ok(TRUE))

\* C7, the constructor's case: Llama's load has called its constructor
\* (a second witness).
C7_WitnessConstructor ==
    \E t \in Callers :
        /\ self = "Llama" /\ args[t].kind = "load" /\ Len(ctor[t]) = 1
        /\ ctor[t][1].rest.is_gptx = TRUE

\* What caller t's call does when it runs alone: the normalization and the
\* constructor call of its own arguments.
Alone(t) == IF args[t].kind = "load" THEN load(self, args[t])
            ELSE load_xlora(self, args[t])

\* Caller t's call has so far done what alone does.
AsAlone(t, alone) ==
    /\ cfg[t] # None => cfg[t][1] = alone.normalized
    /\ Len(ctor[t]) <= 1
    /\ \A i \in DOMAIN ctor[t] :
          /\ alone.normalized.ok
          /\ ctor[t][i].new = alone.new
          /\ ctor[t][i].config = alone.normalized.val
          /\ ctor[t][i].rest = alone.rest
          /\ ctor[t][i].rest.vb = t
    /\ pc[t] = "done" =>
          result[t] = Some(IF alone.normalized.ok THEN ctor[t][1].ret
                           ELSE Err(alone.normalized.err))

\* C8: with the calls of several callers interleaved on one loader, each
\* call's normalization, the config and arguments handed to its constructor
\* and what it returns are those of the call run alone.
C8_ConcurrentCallsIndependent ==
    \A t \in Callers : Loading(t) => AsAlone(t, Alone(t))

\* C8, witness: two callers have both had their constructors called, with
\* different configs, the second called while the first was in its call.
C8_Witness ==
    /\ pc[1] = "construct" /\ pc[2] = "done"
    /\ Len(ctor[2]) = 1
    /\ cfg[1][1].val # ctor[2][1].config
    /\ args[1].use_flash_attn # args[2].use_flash_attn

\* The arguments of a call of either kind as those of a load call and of a
\* load_xlora call with the same config and flag.
AsLoad(a) == LoadArgs(a.config, a.use_flash_attn, a.vb)
AsLoadXLora(a) ==
    LoadXLoraArgs(a.config, a.use_flash_attn, a.vb, <<>>, None, "ordering_1")

\* C9: for every config and flag, load and load_xlora of a loader normalize
\* alike (the same error or the same canonical config); load calls the plain
\* constructor of its architecture and load_xlora the adapter-augmented one.
C9_LoadAndLoadXLoraNormalizeAlike ==
    \A t \in Callers : Loading(t) =>
        /\ load(self, AsLoad(args[t])).normalized
              = load_xlora(self, AsLoadXLora(args[t])).normalized
        /\ load(self, AsLoad(args[t])).new = PlainConstructor(self)
        /\ load_xlora(self, AsLoadXLora(args[t])).new = XLoraConstructor(self)
        /\ cfg[t] # None => cfg[t][1] = load(self, AsLoad(args[t])).normalized
        /\ \A i \in DOMAIN ctor[t] :
              /\ ctor[t][i].new = IF args[t].kind = "load"
                                  THEN PlainConstructor(self)
                                  ELSE XLoraConstructor(self)
              /\ ctor[t][i].config = load(self, AsLoad(args[t])).normalized.val

\* C9, witness: Mixtral's load_xlora has called XLoraMixtral::new with the
\* config Mixtral's load normalizes the document to.
C9_Witness ==
    \E t \in Callers :
        /\ self = "Mixtral" /\ args[t].kind = "load_xlora" /\ Len(ctor[t]) = 1
        /\ ctor[t][1].new = "xlora_models::XLoraMixtral::new"
        /\ Ok(ctor[t][1].config) = load(self, AsLoad(args[t])).normalized

\* C10: in a call, the constructor is invoked only after the normalization
\* has succeeded, with its config, and exactly once; a failed normalization
\* returns its error without a constructor call; and the call returns what
\* the constructor returned, its error unchanged and then no model.
C10_NormalizeThenConstructOnce ==
    \A t \in Callers : Loading(t) =>
        /\ Len(ctor[t]) <= 1
        /\ pc[t] = "normalize" => cfg[t] = None /\ ctor[t] = <<>>
        /\ pc[t] = "construct" => Normalized(t) /\ ctor[t] = <<>>
        /\ ctor[t] # <<>> =>
              /\ Normalized(t)
              /\ ctor[t][1].config = Canonical(t)
              /\ pc[t] = "done"
        /\ pc[t] = "done" =>
              IF Normalized(t)
              THEN /\ Len(ctor[t]) = 1
                   /\ result[t] = Some(ctor[t][1].ret)
              ELSE /\ ctor[t] = <<>>
                   /\ result[t] = Some(Err(cfg[t][1].err))

\* C10, witness: a call whose constructor failed has returned that error.
C10_Witness ==
    \E t \in Callers :
        /\ pc[t] = "done" /\ Loading(t) /\ Len(ctor[t]) = 1
        /\ ~ctor[t][1].ret.ok
        /\ result[t] = Some(Err([kind |-> "construction", what |-> ctor[t][1].new]))

=============================================================================
